---- MODULE Spec2Model ----
(***************************************************************************)
(* Model of src/src/coursera_courses_eda/utils.py:                         *)
(*   load_coursera_data         (lines 42-120)                             *)
(*   convert_students_enrolled  (lines 123-149)                            *)
(* and of detect_and_print_outliers_iqr, which tests/test_utils.py imports  *)
(* from utils but utils.py does not define (modelled from its contract).   *)
(*                                                                         *)
(* A path is the sequence of its components (pathlib's Path.parts); an     *)
(* absolute path starts with the anchor component "/".  A message is a     *)
(* sequence of tokens: literal text, an embedded path, an embedded OS      *)
(* name.  A string given to convert_students_enrolled is the sequence of   *)
(* its characters.  Floats are IEEE-754 binary64 values: a 53-bit          *)
(* significand, kept in 15-bit limbs so that every intermediate integer    *)
(* stays small, and a binary exponent.                                     *)
(***************************************************************************)
EXTENDS Integers, Sequences, FiniteSets, TLC

VARIABLES
    \* ---- process-wide state read by load_coursera_data
    cwd,            \* the process working directory (os.getcwd())
    os_name,        \* os.name of the host
    \* ---- one call of load_coursera_data
    dataset_file_path, \* the argument
    encoding,       \* the argument
    pc,             \* the source line the call is at, or "returned"/"raised"
    bound,          \* the local names bound so far
    path,           \* local `path`
    current_dir,    \* local `current_dir`
    project_root,   \* local `project_root`
    error,          \* the error caught by `except Exception as error`
    built,          \* the f-string evaluated at lines 116-119
    delivered,      \* the error the caller receives
    result,         \* the table the caller receives
    readerCalls,    \* the calls of pd.read_csv made so far
    chdirs,         \* working-directory changes made by other threads
    peer,           \* a second, concurrent call of load_coursera_data: its
                    \* arguments, position, locals and outcome in one record
    \* ---- one call of convert_students_enrolled
    value,          \* the argument
    cpc,            \* "call" or "done"
    cbranch,        \* the branch of lines 144-149 the call took
    cout,           \* the outcome: a returned int or a raised error
    \* ---- one call of detect_and_print_outliers_iqr
    df,             \* the argument: the table
    column,         \* the argument: the column name
    dpc,            \* "call", "header", "rows", "returned" or "raised"
    outliers,       \* the rows found outside the bounds
    stdout,         \* the lines written to standard output so far
    dout            \* the error raised, if any

loadVars == <<cwd, os_name, dataset_file_path, encoding, pc, bound, path,
              current_dir, project_root, error, built, delivered, result,
              readerCalls, chdirs, peer>>
convVars == <<value, cpc, cbranch, cout>>
detVars == <<df, column, dpc, outliers, stdout, dout>>
vars == <<cwd, os_name, dataset_file_path, encoding, pc, bound, path,
          current_dir, project_root, error, built, delivered, result,
          readerCalls, chdirs, peer, value, cpc, cbranch, cout,
          df, column, dpc, outliers, stdout, dout>>

(***************************************************************************)
(* Bounds                                                                  *)
(***************************************************************************)
\* how often another thread changes the working directory during one call
MaxChdir == 1

(***************************************************************************)
(* Messages                                                                *)
(***************************************************************************)
Lit(s) == [t |-> "lit", v |-> <<s>>]
PathTok(p) == [t |-> "path", v |-> p]
OsTok(o) == [t |-> "os", v |-> <<o>>]

\* msg contains literal text s
HasLit(msg, s) == \E i \in 1..Len(msg) : msg[i] = Lit(s)
\* msg contains the label immediately followed by the token
HasField(msg, label, tok) ==
    \E i \in 1..(Len(msg) - 1) : msg[i] = Lit(label) /\ msg[i + 1] = tok
\* msg contains sub as a contiguous piece
ContainsSeq(msg, sub) ==
    \E i \in 0..(Len(msg) - Len(sub)) :
        \A j \in 1..Len(sub) : msg[i + j] = sub[j]

NoError == [kind |-> "None", msg |-> <<>>]
NoDelivery == [kind |-> "None", msg |-> <<>>, cause |-> NoError, context |-> NoError]
NoTable == [columns |-> <<>>, rows |-> <<>>]

(***************************************************************************)
(* The file system and the CSV reader (pandas.read_csv): the environment   *)
(* of load_coursera_data.  No symbolic links.                              *)
(***************************************************************************)
Directories ==
    { <<"/">>, <<"/", "proj">>, <<"/", "proj", "data">>,
      <<"/", "proj", "notebooks">>, <<"/", "proj", "notebooks", "data">>,
      <<"/", "proj", "Notebooks">> }

SampleTable ==
    [columns |-> <<"organization", "course_rating", "course_students_enrolled">>,
     rows |-> << <<"OrgA", "4.5", "1.2k">>, <<"OrgB", "4.0", "3.5k">> >>]
DraftTable ==
    [columns |-> <<"course_rating", "organization">>,
     rows |-> << <<"3.8", "OrgC">> >>]

\* what reading each regular file does
FileContent ==
    ( <<"/", "proj", "data", "coursera_data.csv">> :> [kind |-> "csv", table |-> SampleTable] ) @@
    ( <<"/", "proj", "notebooks", "data", "coursera_data.csv">> :> [kind |-> "csv", table |-> DraftTable] ) @@
    ( <<"/", "proj", "data", "latin.csv">> :> [kind |-> "latin-1", table |-> SampleTable] ) @@
    ( <<"/", "proj", "data", "broken.csv">> :> [kind |-> "malformed", table |-> NoTable] ) @@
    ( <<"/", "proj", "data", "secret.csv">> :> [kind |-> "unreadable", table |-> NoTable] ) @@
    ( <<"/", "proj", "data", "flaky.csv">> :> [kind |-> "failing", table |-> NoTable] )

RegularFiles == DOMAIN FileContent

Encodings == {"None", "utf-8", "latin-1"}
OsNames == {"posix", "nt"}

\* pd.read_csv(p, encoding=enc): a table, or the error the reader raises
ReadCsv(p, enc) ==
    IF p \notin RegularFiles
    THEN [ok |-> FALSE, table |-> NoTable,
          err |-> [kind |-> "IsADirectoryError",
                   msg |-> <<Lit("[Errno 21] Is a directory: "), PathTok(p)>>]]
    ELSE LET f == FileContent[p] IN
         CASE f.kind = "csv" -> [ok |-> TRUE, table |-> f.table, err |-> NoError]
           [] f.kind = "latin-1" ->
                IF enc = "latin-1"
                THEN [ok |-> TRUE, table |-> f.table, err |-> NoError]
                ELSE [ok |-> FALSE, table |-> NoTable,
                      err |-> [kind |-> "UnicodeDecodeError",
                               msg |-> <<Lit("'utf-8' codec can't decode byte 0xe9 in position 7: invalid continuation byte")>>]]
           [] f.kind = "malformed" ->
                [ok |-> FALSE, table |-> NoTable,
                 err |-> [kind |-> "ParserError",
                          msg |-> <<Lit("Error tokenizing data. C error: Expected 3 fields in line 3, saw 4")>>]]
           [] f.kind = "unreadable" ->
                [ok |-> FALSE, table |-> NoTable,
                 err |-> [kind |-> "PermissionError",
                          msg |-> <<Lit("[Errno 13] Permission denied: "), PathTok(p)>>]]
           [] OTHER ->
                [ok |-> FALSE, table |-> NoTable,
                 err |-> [kind |-> "Exception", msg |-> <<Lit("Read error")>>]]

(***************************************************************************)
(* pathlib                                                                 *)
(***************************************************************************)
\* Path(arg): the components of the argument, "." components dropped
RECURSIVE DropDots(_)
DropDots(segs) ==
    IF segs = <<>> THEN <<>>
    ELSE IF Head(segs) = "." THEN DropDots(Tail(segs))
    ELSE <<Head(segs)>> \o DropDots(Tail(segs))

IsAbsolute(p) == Len(p) > 0 /\ p[1] = "/"

\* Path.name: the final component, "" for the anchor alone
Name(p) == IF Len(p) = 0 \/ p = <<"/">> THEN "" ELSE p[Len(p)]

\* Path.parent
Parent(p) == IF Len(p) <= 1 THEN p ELSE SubSeq(p, 1, Len(p) - 1)

\* Path.resolve() of an absolute path on a file system without links:
\* ".." steps to the parent, and the parent of the anchor is the anchor
RECURSIVE ResolveFrom(_, _)
ResolveFrom(done, rest) ==
    IF rest = <<>> THEN done
    ELSE IF Head(rest) = ".." THEN ResolveFrom(Parent(done), Tail(rest))
    ELSE ResolveFrom(Append(done, Head(rest)), Tail(rest))

Resolve_asgiven(p) == p
Resolve(p) == ResolveFrom(<<"/">>, Tail(p))

IsFile_exists(p) == p \in RegularFiles \cup Directories
IsFile(p) == p \in RegularFiles

ProjectRoot_anycase(dir) ==
    IF Name(dir) \in {"notebooks", "Notebooks"} THEN Parent(dir) ELSE dir
\* lines 92-95
ProjectRoot(dir) == IF Name(dir) = "notebooks" THEN Parent(dir) ELSE dir

\* lines 97-98
JoinRoot(root, p) == IF ~IsAbsolute(p) THEN root \o p ELSE p

(***************************************************************************)
(* The messages load_coursera_data builds                                  *)
(***************************************************************************)
NotFoundMessage_noroot(p, dir, root, o) ==
    << Lit("Dataset file not found at: "), PathTok(p), Lit("\n"),
       Lit("Current directory: "), PathTok(dir), Lit("\n"),
       Lit("Operating system: "), OsTok(o), Lit("\n"),
       Lit("Ensure you're running from the project root or notebooks directory.") >>
\* lines 103-110
NotFoundMessage(p, dir, root, o) ==
    << Lit("Dataset file not found at: "), PathTok(p), Lit("\n"),
       Lit("Current directory: "), PathTok(dir), Lit("\n"),
       Lit("Project root: "), PathTok(root), Lit("\n"),
       Lit("Operating system: "), OsTok(o), Lit("\n"),
       Lit("Ensure you're running from the project root or notebooks directory.") >>

HandlerContext_nopath(o, dir, p) ==
    << Lit("\n"), Lit("Operating system: "), OsTok(o),
       Lit("\n"), Lit("Current directory: "), PathTok(dir) >>
\* lines 116-119, after "{error}"
HandlerContext(o, dir, p) ==
    << Lit("\n"), Lit("Operating system: "), OsTok(o),
       Lit("\n"), Lit("Current directory: "), PathTok(dir),
       Lit("\n"), Lit("Attempted path: "), PathTok(p) >>

\* type(error)(message): UnicodeDecodeError takes exactly five arguments, so
\* calling it with the one message raises TypeError instead of building it
Constructible(kind) == kind # "UnicodeDecodeError"

\* `from error` at line 120
Chain(original) == original

ReadArgs_noencoding(p, enc) == [path |-> p, encoding |-> "None"]
\* the arguments of pd.read_csv at line 112
ReadArgs(p, enc) == [path |-> p, encoding |-> enc]

(***************************************************************************)
(* load_coursera_data, one source line per step                            *)
(***************************************************************************)
\* the arguments tried: strings split at "/", and a value that is no path
DatasetArgs ==
    { [type |-> "str", segs |-> <<"data", "coursera_data.csv">>],
      [type |-> "str", segs |-> <<".", "data", "coursera_data.csv">>],
      [type |-> "str", segs |-> <<"data", "latin.csv">>],
      [type |-> "str", segs |-> <<"data", "broken.csv">>],
      [type |-> "str", segs |-> <<"data", "secret.csv">>],
      [type |-> "str", segs |-> <<"data", "flaky.csv">>],
      [type |-> "str", segs |-> <<"non_existent_file.csv">>],
      [type |-> "str", segs |-> <<"data">>],
      [type |-> "str", segs |-> <<"..", "data", "coursera_data.csv">>],
      [type |-> "str", segs |-> <<"/", "proj", "data", "coursera_data.csv">>],
      [type |-> "str", segs |-> <<"/", "proj", "notebooks", "..", "data", "latin.csv">>],
      [type |-> "str", segs |-> <<"/", "proj", "data", "gone.csv">>],
      [type |-> "NoneType", segs |-> <<>>] }

WorkingDirs ==
    { <<"/", "proj">>, <<"/", "proj", "notebooks">>,
      <<"/", "proj", "Notebooks">>, <<"/", "proj", "data">> }

Terminal == {"returned", "raised"}

NoPeer ==
    [arg |-> [type |-> "str", segs |-> <<>>], enc |-> "None", pc |-> "idle",
     bound |-> {}, path |-> <<>>, current_dir |-> <<>>, project_root |-> <<>>,
     error |-> NoError, delivered |-> NoDelivery, result |-> NoTable]

InitLoad ==
    /\ cwd \in WorkingDirs
    /\ os_name \in OsNames
    /\ dataset_file_path \in DatasetArgs
    /\ encoding \in Encodings
    /\ pc = "L89"
    /\ bound = {}
    /\ path = <<>>
    /\ current_dir = <<>>
    /\ project_root = <<>>
    /\ error = NoError
    /\ built = <<>>
    /\ delivered = NoDelivery
    /\ result = NoTable
    /\ readerCalls = <<>>
    /\ chdirs = 0

IdleLoad ==
    /\ peer = NoPeer
    /\ cwd = <<"/", "proj">>
    /\ os_name = "posix"
    /\ dataset_file_path = [type |-> "str", segs |-> <<"data", "coursera_data.csv">>]
    /\ encoding = "None"
    /\ pc = "idle"
    /\ bound = {}
    /\ path = <<>>
    /\ current_dir = <<>>
    /\ project_root = <<>>
    /\ error = NoError
    /\ built = <<>>
    /\ delivered = NoDelivery
    /\ result = NoTable
    /\ readerCalls = <<>>
    /\ chdirs = 0

\* line 89: path = Path(dataset_file_path); a non-path argument raises TypeError
MakePath ==
    /\ pc = "L89"
    /\ IF dataset_file_path.type = "str"
       THEN /\ path' = DropDots(dataset_file_path.segs)
            /\ bound' = bound \cup {"path"}
            /\ pc' = "L90"
            /\ error' = error
       ELSE /\ error' = [kind |-> "TypeError",
                         msg |-> <<Lit("expected str, bytes or os.PathLike object, not NoneType")>>]
            /\ pc' = "L114"
            /\ UNCHANGED <<path, bound>>
    /\ UNCHANGED <<cwd, os_name, dataset_file_path, encoding, current_dir,
                   project_root, built, delivered, result, readerCalls, chdirs>>
    /\ UNCHANGED peer
    /\ UNCHANGED convVars
    /\ UNCHANGED detVars

\* line 90: current_dir = Path.cwd()
ReadCwd ==
    /\ pc = "L90"
    /\ current_dir' = cwd
    /\ bound' = bound \cup {"current_dir"}
    /\ pc' = "L92"
    /\ UNCHANGED <<cwd, os_name, dataset_file_path, encoding, path,
                   project_root, error, built, delivered, result, readerCalls, chdirs>>
    /\ UNCHANGED peer
    /\ UNCHANGED convVars
    /\ UNCHANGED detVars

\* lines 92-95
ComputeRoot ==
    /\ pc = "L92"
    /\ project_root' = ProjectRoot(current_dir)
    /\ bound' = bound \cup {"project_root"}
    /\ pc' = "L97"
    /\ UNCHANGED <<cwd, os_name, dataset_file_path, encoding, path,
                   current_dir, error, built, delivered, result, readerCalls, chdirs>>
    /\ UNCHANGED peer
    /\ UNCHANGED convVars
    /\ UNCHANGED detVars

\* lines 97-98
Join ==
    /\ pc = "L97"
    /\ path' = JoinRoot(project_root, path)
    /\ pc' = "L100"
    /\ UNCHANGED <<cwd, os_name, dataset_file_path, encoding, bound,
                   current_dir, project_root, error, built, delivered, result,
                   readerCalls, chdirs>>
    /\ UNCHANGED peer
    /\ UNCHANGED convVars
    /\ UNCHANGED detVars

\* line 100: path = path.resolve()
ResolvePath ==
    /\ pc = "L100"
    /\ path' = Resolve(path)
    /\ pc' = "L102"
    /\ UNCHANGED <<cwd, os_name, dataset_file_path, encoding, bound,
                   current_dir, project_root, error, built, delivered, result,
                   readerCalls, chdirs>>
    /\ UNCHANGED peer
    /\ UNCHANGED convVars
    /\ UNCHANGED detVars

\* lines 102-110: the existence check, raising inside the try block
CheckIsFile ==
    /\ pc = "L102"
    /\ IF ~IsFile(path)
       THEN /\ error' = [kind |-> "FileNotFoundError",
                         msg |-> NotFoundMessage(path, current_dir, project_root, os_name)]
            /\ pc' = "L114"
       ELSE /\ pc' = "L112"
            /\ error' = error
    /\ UNCHANGED <<cwd, os_name, dataset_file_path, encoding, bound, path,
                   current_dir, project_root, built, delivered, result,
                   readerCalls, chdirs>>
    /\ UNCHANGED peer
    /\ UNCHANGED convVars
    /\ UNCHANGED detVars

\* line 112: return pd.read_csv(path, encoding=encoding)
ReadFile ==
    /\ pc = "L112"
    /\ LET a == ReadArgs(path, encoding)
           r == ReadCsv(a.path, a.encoding)
       IN /\ readerCalls' = Append(readerCalls, a)
          /\ IF r.ok
             THEN /\ result' = r.table
                  /\ pc' = "returned"
                  /\ error' = error
             ELSE /\ error' = r.err
                  /\ pc' = "L114"
                  /\ result' = result
    /\ UNCHANGED <<cwd, os_name, dataset_file_path, encoding, bound, path,
                   current_dir, project_root, built, delivered, chdirs>>
    /\ UNCHANGED peer
    /\ UNCHANGED convVars
    /\ UNCHANGED detVars

\* lines 114-120: except Exception as error: raise type(error)(...) from error
Handler ==
    /\ pc = "L114"
    /\ pc' = "raised"
    /\ IF "path" \notin bound
       THEN \* the f-string reads the unbound local `path`
            /\ built' = built
            /\ delivered' = [kind |-> "UnboundLocalError",
                             msg |-> <<Lit("cannot access local variable 'path' where it is not associated with a value")>>,
                             cause |-> NoError, context |-> error]
       ELSE /\ built' = error.msg \o HandlerContext(os_name, cwd, path)
            /\ IF Constructible(error.kind)
               THEN delivered' = [kind |-> error.kind, msg |-> built',
                                  cause |-> Chain(error), context |-> error]
               ELSE delivered' = [kind |-> "TypeError",
                                  msg |-> <<Lit("function takes exactly 5 arguments (1 given)")>>,
                                  cause |-> NoError, context |-> error]
    /\ UNCHANGED <<cwd, os_name, dataset_file_path, encoding, bound, path,
                   current_dir, project_root, error, result, readerCalls, chdirs>>
    /\ UNCHANGED peer
    /\ UNCHANGED convVars
    /\ UNCHANGED detVars

\* another thread of the process calls os.chdir while the call is running
Chdir ==
    /\ pc \notin Terminal \cup {"idle"}
    /\ chdirs < MaxChdir
    /\ \E d \in WorkingDirs \ {cwd} : cwd' = d
    /\ chdirs' = chdirs + 1
    /\ UNCHANGED <<os_name, dataset_file_path, encoding, pc, bound, path,
                   current_dir, project_root, error, built, delivered, result,
                   readerCalls>>
    /\ UNCHANGED peer
    /\ UNCHANGED convVars
    /\ UNCHANGED detVars

LoadStep ==
    \/ MakePath
    \/ ReadCwd
    \/ ComputeRoot
    \/ Join
    \/ ResolvePath
    \/ CheckIsFile
    \/ ReadFile
    \/ Handler

IdleConvert ==
    /\ value = <<>>
    /\ cpc = "idle"
    /\ cbranch = "none"
    /\ cout = [kind |-> "None", val |-> 0]

NoOutcome == [kind |-> "None", key |-> ""]

IdleDetect ==
    /\ df = [columns |-> <<>>, dtypes |-> <<>>, rows |-> <<>>]
    /\ column = ""
    /\ dpc = "idle"
    /\ outliers = <<>>
    /\ stdout = <<>>
    /\ dout = NoOutcome

Init == InitLoad /\ peer = NoPeer /\ IdleConvert /\ IdleDetect

Next == LoadStep \/ Chdir

Spec == Init /\ [][Next]_vars

(***************************************************************************)
(* Strings (sequences of one-character strings)                            *)
(***************************************************************************)
DigitChars == <<"0", "1", "2", "3", "4", "5", "6", "7", "8", "9">>
IsDigit(c) == \E i \in 1..Len(DigitChars) : DigitChars[i] = c
DigitVal(c) == (CHOOSE i \in 1..Len(DigitChars) : DigitChars[i] = c) - 1
IsSpace(c) == c = " "

\* c in s
Contains(s, c) == \E i \in 1..Len(s) : s[i] = c
\* s.replace(c, "")
RECURSIVE Remove(_, _)
Remove(s, c) ==
    IF s = <<>> THEN <<>>
    ELSE IF Head(s) = c THEN Remove(Tail(s), c)
    ELSE <<Head(s)>> \o Remove(Tail(s), c)

\* the strip of surrounding whitespace that int() and float() start with
RECURSIVE LStrip(_)
LStrip(s) == IF s # <<>> /\ IsSpace(Head(s)) THEN LStrip(Tail(s)) ELSE s
RECURSIVE RStrip(_)
RStrip(s) ==
    IF s # <<>> /\ IsSpace(s[Len(s)]) THEN RStrip(SubSeq(s, 1, Len(s) - 1)) ELSE s
Strip(s) == RStrip(LStrip(s))

HasSign(s) == s # <<>> /\ Head(s) \in {"-", "+"}
Unsigned(s) == IF HasSign(s) THEN Tail(s) ELSE s
IsNegative(s) == s # <<>> /\ Head(s) = "-"

AllDigits(s) == \A i \in 1..Len(s) : IsDigit(s[i])

RECURSIVE DigitsToInt(_)
DigitsToInt(s) ==
    IF s = <<>> THEN 0
    ELSE 10 * DigitsToInt(SubSeq(s, 1, Len(s) - 1)) + DigitVal(s[Len(s)])

RECURSIVE Pow10(_)
Pow10(k) == IF k = 0 THEN 1 ELSE 10 * Pow10(k - 1)

\* a decimal numeral without sign: digits with at most one point, at least one digit
DotCount(s) == Cardinality({i \in 1..Len(s) : s[i] = "."})
IsDecimal(s) ==
    /\ DotCount(s) <= 1
    /\ \A i \in 1..Len(s) : IsDigit(s[i]) \/ s[i] = "."
    /\ \E i \in 1..Len(s) : IsDigit(s[i])
\* its digits as an integer and the number of digits after the point
DecimalDigits(s) == DigitsToInt(Remove(s, "."))
DecimalScale(s) ==
    IF DotCount(s) = 0 THEN 0
    ELSE Len(s) - (CHOOSE i \in 1..Len(s) : s[i] = ".")

(***************************************************************************)
(* Natural numbers of any size: sequences of limbs, least significant      *)
(* first, without zero limbs at the top                                    *)
(***************************************************************************)
LimbBits == 15
Base == 32768

Min(a, b) == IF a <= b THEN a ELSE b

RECURSIVE Limbs(_)
Limbs(n) == IF n = 0 THEN <<>> ELSE <<n % Base>> \o Limbs(n \div Base)

RECURSIVE LimbsToInt(_)
LimbsToInt(a) == IF a = <<>> THEN 0 ELSE Head(a) + Base * LimbsToInt(Tail(a))

RECURSIVE Trim(_)
Trim(a) ==
    IF a # <<>> /\ a[Len(a)] = 0 THEN Trim(SubSeq(a, 1, Len(a) - 1)) ELSE a

\* the number of bits of a
BitLen(a) ==
    IF a = <<>> THEN 0
    ELSE LimbBits * (Len(a) - 1)
         + (CHOOSE k \in 1..LimbBits : 2^(k - 1) <= a[Len(a)] /\ a[Len(a)] < 2^k)

IsOdd(a) == a # <<>> /\ a[1] % 2 = 1

RECURSIVE MulCarry(_, _, _)
MulCarry(a, c, carry) ==
    IF a = <<>> THEN Limbs(carry)
    ELSE LET t == Head(a) * c + carry
         IN <<t % Base>> \o MulCarry(Tail(a), c, t \div Base)
\* a * c for 0 <= c < Base
MulSmall(a, c) == Trim(MulCarry(a, c, 0))

RECURSIVE AddCarry(_, _, _)
AddCarry(a, b, carry) ==
    IF a = <<>> /\ b = <<>> THEN Limbs(carry)
    ELSE LET t == (IF a = <<>> THEN 0 ELSE Head(a))
                  + (IF b = <<>> THEN 0 ELSE Head(b)) + carry
         IN <<t % Base>> \o AddCarry(IF a = <<>> THEN a ELSE Tail(a),
                                     IF b = <<>> THEN b ELSE Tail(b),
                                     t \div Base)
Add(a, b) == Trim(AddCarry(a, b, 0))

RECURSIVE MulLimbs(_, _)
MulLimbs(a, b) ==
    IF b = <<>> THEN <<>>
    ELSE AddCarry(MulCarry(a, Head(b), 0), <<0>> \o MulLimbs(a, Tail(b)), 0)
Mul(a, b) == Trim(MulLimbs(a, b))

\* short division from the top limb down, 0 < d < Base
RECURSIVE DivSmallAt(_, _, _, _)
DivSmallAt(a, i, d, rem) ==
    IF i = 0 THEN [q |-> <<>>, r |-> rem]
    ELSE LET t == rem * Base + a[i]
             rest == DivSmallAt(a, i - 1, d, t % d)
         IN [q |-> Append(rest.q, t \div d), r |-> rest.r]
DivSmall(a, d) ==
    LET x == DivSmallAt(a, Len(a), d, 0) IN [q |-> Trim(x.q), r |-> x.r]

\* a * 2^k
ShiftLeft(a, k) ==
    Trim([i \in 1..(k \div LimbBits) |-> 0] \o MulSmall(a, 2^(k % LimbBits)))

\* a div 2^s, and whether nothing was cut off
ShiftRight(a, s) ==
    LET w == Min(s \div LimbBits, Len(a))
        x == DivSmall(SubSeq(a, w + 1, Len(a)), 2^(s % LimbBits))
    IN [q |-> x.q, exact |-> x.r = 0 /\ \A i \in 1..w : a[i] = 0]

(***************************************************************************)
(* binary64 arithmetic: a finite non-zero float is sig * 2^exp with         *)
(* 2^52 <= sig < 2^53 (exponents stay far inside the binary64 range here)   *)
(***************************************************************************)
\* bits of the significand of a Python float
Precision == 53

Zero(neg) == [cls |-> "zero", neg |-> neg, sig |-> <<>>, exp |-> 0]
Inf(neg) == [cls |-> "inf", neg |-> neg, sig |-> <<>>, exp |-> 0]
NaN == [cls |-> "nan", neg |-> FALSE, sig |-> <<>>, exp |-> 0]

\* the integer a (plus, when sticky, a non-zero amount below 1) rounded to
\* Precision bits, to nearest, ties to even: the result is sig * 2^shift.
\* With sticky, a has more than Precision bits.
RoundNearestEven(a, sticky) ==
    LET len == BitLen(a) IN
    IF len <= Precision
    THEN [sig |-> ShiftLeft(a, Precision - len), shift |-> len - Precision]
    ELSE LET s == len - Precision
             h == ShiftRight(a, s - 1)
             kept == ShiftRight(h.q, 1).q
             guard == IsOdd(h.q)
             below == sticky \/ ~h.exact
             up == guard /\ (below \/ IsOdd(kept))
             r == IF up THEN Add(kept, <<1>>) ELSE kept
         IN IF BitLen(r) > Precision
            THEN [sig |-> ShiftRight(r, 1).q, shift |-> s + 1]
            ELSE [sig |-> r, shift |-> s]

\* the float nearest to n / 10^f (float(str) rounds correctly)
ToDouble(neg, n, f) ==
    IF n = 0 THEN Zero(neg)
    ELSE LET d == Pow10(f)
             k == Precision + 2 + BitLen(Limbs(d)) - BitLen(Limbs(n))
             x == DivSmall(ShiftLeft(Limbs(n), k), d)
             r == RoundNearestEven(x.q, x.r # 0)
         IN [cls |-> "finite", neg |-> neg, sig |-> r.sig, exp |-> r.shift - k]

\* a numeral with a decimal exponent, without sign: a decimal numeral, "e",
\* one or more digits (signed exponents and "E" are not among the inputs)
ECount(s) == Cardinality({i \in 1..Len(s) : s[i] = "e"})
EPos(s) == CHOOSE i \in 1..Len(s) : s[i] = "e"
Mantissa(s) == SubSeq(s, 1, EPos(s) - 1)
Exponent(s) == SubSeq(s, EPos(s) + 1, Len(s))
IsScientific(s) ==
    /\ ECount(s) = 1
    /\ IsDecimal(Mantissa(s))
    /\ Exponent(s) # <<>>
    /\ AllDigits(Exponent(s))

\* every finite binary64 value is below 10^(MaxDecimalExponent + 1)
MaxDecimalExponent == 308

\* the float nearest to n * 10^(e - f): infinity when it is out of range
\* (exponents from 10 to MaxDecimalExponent are not among the inputs)
ScientificToDouble(neg, n, f, e) ==
    IF n = 0 THEN Zero(neg)
    ELSE IF e - f > MaxDecimalExponent THEN Inf(neg)
    ELSE IF e >= f THEN ToDouble(neg, n * Pow10(e - f), 0)
    ELSE ToDouble(neg, n, f - e)

ParseFloat_emptyzero(s) ==
    LET t == Strip(s)
        u == Unsigned(t)
    IN IF u = <<>> THEN [ok |-> TRUE, x |-> Zero(FALSE)]
       ELSE IF u = <<"i", "n", "f">> THEN [ok |-> TRUE, x |-> Inf(IsNegative(t))]
       ELSE IF u = <<"n", "a", "n">> THEN [ok |-> TRUE, x |-> NaN]
       ELSE IF IsDecimal(u)
            THEN [ok |-> TRUE, x |-> ToDouble(IsNegative(t), DecimalDigits(u), DecimalScale(u))]
       ELSE IF IsScientific(u)
            THEN [ok |-> TRUE,
                  x |-> ScientificToDouble(IsNegative(t), DecimalDigits(Mantissa(u)),
                                           DecimalScale(Mantissa(u)),
                                           DigitsToInt(Exponent(u)))]
            ELSE [ok |-> FALSE, x |-> NaN]
\* float(s): ValueError unless s, stripped, is a signed decimal numeral, with
\* or without exponent, inf or nan (underscores and upper case are not among
\* the inputs)
ParseFloat(s) ==
    LET t == Strip(s)
        u == Unsigned(t)
    IN IF u = <<"i", "n", "f">> THEN [ok |-> TRUE, x |-> Inf(IsNegative(t))]
       ELSE IF u = <<"n", "a", "n">> THEN [ok |-> TRUE, x |-> NaN]
       ELSE IF IsDecimal(u)
            THEN [ok |-> TRUE, x |-> ToDouble(IsNegative(t), DecimalDigits(u), DecimalScale(u))]
       ELSE IF IsScientific(u)
            THEN [ok |-> TRUE,
                  x |-> ScientificToDouble(IsNegative(t), DecimalDigits(Mantissa(u)),
                                           DecimalScale(Mantissa(u)),
                                           DigitsToInt(Exponent(u)))]
            ELSE [ok |-> FALSE, x |-> NaN]

\* x * c for a positive integer c, itself a float exactly: the exact product
\* rounded to nearest, ties to even
Times(x, c) ==
    IF x.cls # "finite" THEN x
    ELSE LET r == RoundNearestEven(Mul(x.sig, Limbs(c)), FALSE)
         IN [cls |-> "finite", neg |-> x.neg, sig |-> r.sig, exp |-> x.exp + r.shift]

IntResult(n) == [kind |-> "int", val |-> n]
Raise(kind) == [kind |-> kind, val |-> 0]

Truncate_round(x) ==
    IF x.cls = "inf" THEN Raise("OverflowError")
    ELSE IF x.cls = "nan" THEN Raise("ValueError")
    ELSE IF x.cls = "zero" THEN IntResult(0)
    ELSE LET mag == IF x.exp >= 0
                    THEN LimbsToInt(ShiftLeft(x.sig, x.exp))
                    ELSE LET h == ShiftRight(x.sig, 0 - x.exp - 1).q
                         IN LimbsToInt(ShiftRight(h, 1).q) + (IF IsOdd(h) THEN 1 ELSE 0)
         IN IntResult(IF x.neg THEN 0 - mag ELSE mag)
\* int(x) of a float: the integer part, toward zero
Truncate(x) ==
    IF x.cls = "inf" THEN Raise("OverflowError")
    ELSE IF x.cls = "nan" THEN Raise("ValueError")
    ELSE IF x.cls = "zero" THEN IntResult(0)
    ELSE LET mag == IF x.exp >= 0
                    THEN LimbsToInt(ShiftLeft(x.sig, x.exp))
                    ELSE LimbsToInt(ShiftRight(x.sig, 0 - x.exp).q)
         IN IntResult(IF x.neg THEN 0 - mag ELSE mag)

ParseInt_viafloat(s) ==
    LET p == ParseFloat(s)
    IN IF ~p.ok THEN Raise("ValueError") ELSE Truncate(p.x)
\* int(s) of a string: surrounding whitespace, a sign, then digits only
ParseInt(s) ==
    LET t == Strip(s)
        u == Unsigned(t)
    IN IF u # <<>> /\ AllDigits(u)
       THEN IntResult(IF IsNegative(t) THEN 0 - DigitsToInt(u) ELSE DigitsToInt(u))
       ELSE Raise("ValueError")

(***************************************************************************)
(* convert_students_enrolled                                               *)
(***************************************************************************)
\* line 145
KScale == 1000
\* line 147
MScale == 1000000

\* int(float(value.replace(suffix, "")) * scale)
Scaled(s, suffix, scale) ==
    LET p == ParseFloat(Remove(s, suffix))
    IN IF ~p.ok THEN Raise("ValueError") ELSE Truncate(Times(p.x, scale))

Branch_mfirst(s) ==
    IF Contains(s, "m") THEN "m"
    ELSE IF Contains(s, "k") THEN "k"
    ELSE "plain"
\* the conditions of lines 144 and 146, tried in this order
Branch(s) ==
    IF Contains(s, "k") THEN "k"
    ELSE IF Contains(s, "m") THEN "m"
    ELSE "plain"

\* lines 144-149
ConvertStudentsEnrolled(s) ==
    LET b == Branch(s)
    IN IF b = "k" THEN Scaled(s, "k", KScale)
       ELSE IF b = "m" THEN Scaled(s, "m", MScale)
       ELSE ParseInt(s)

\* ---- the strings tried
\* digits before the point, digits after the point
MaxIntDigits == 1
MaxFracDigits == 2
DigitAlphabet == {"0", "1", "4", "9"}

RECURSIVE DigitStrings(_)
DigitStrings(k) ==
    IF k = 0 THEN {<<>>}
    ELSE LET shorter == DigitStrings(k - 1)
         IN shorter \cup {Append(s, c) : s \in {t \in shorter : Len(t) = k - 1}, c \in DigitAlphabet}

Numerals ==
    { i \o f : i \in DigitStrings(MaxIntDigits),
               f \in {<<>>} \cup {<<".">> \o g : g \in DigitStrings(MaxFracDigits)} }
Signs == {<<>>, <<"-">>}
Suffixes == {<<>>, <<"k">>, <<"m">>, <<"b">>, <<"K">>, <<"M">>}

OtherStrings ==
    { <<"1", ".", "5", "k">>, <<"2", "m">>, <<"5", "0", "0">>, <<"0", "k">>,
      <<"3", ".", "2", "5", "k">>, <<"4", ".", "7", "5", "m">>,
      <<"1", ".", "2", "b">>, <<"a", "b", "c">>, <<"-", "1", "k">>, <<" ">>,
      <<>>, <<"k">>, <<"m">>, <<"k", "m">>, <<"1", "k", "m">>, <<"1", "k", "5">>,
      <<" ", "5", "k", " ">>, <<" ", "7", " ">>, <<"+", "2", "k">>, <<"1", " ", "k">>,
      <<"1", ".", "0", "0", "1", "k">>, <<"8", ".", "2", "m">>,
      <<"i", "n", "f">>, <<"i", "n", "f", "k">>, <<"n", "a", "n", "k">>,
      <<"-", "i", "n", "f", "m">>, <<"n", "a", "n">>,
      <<"1", ".", "5">>, <<"1", "K">>, <<"2", "M">>, <<"1", "m", "k">>,
      <<"k", "1", "k">>, <<"1", "k", "k">>,
      <<"1", "e", "9", "9", "9", "k">>, <<"1", "e", "4", "0", "0", "m">>,
      <<"1", "e", "3", "k">>, <<"2", ".", "5", "e", "1", "m">>,
      <<"0", "e", "9", "9", "9", "k">>, <<"1", "e", "3">>, <<"e", "k">> }

ConvertInputs ==
    { s \o n \o x : s \in Signs, n \in Numerals, x \in Suffixes } \cup OtherStrings

InitConvert ==
    /\ IdleLoad
    /\ IdleDetect
    /\ value \in ConvertInputs
    /\ cpc = "call"
    /\ cbranch = "none"
    /\ cout = [kind |-> "None", val |-> 0]

\* one call of convert_students_enrolled(value)
Convert ==
    /\ cpc = "call"
    /\ cbranch' = Branch(value)
    /\ cout' = ConvertStudentsEnrolled(value)
    /\ cpc' = "done"
    /\ UNCHANGED value
    /\ UNCHANGED loadVars
    /\ UNCHANGED detVars

NextConvert == Convert

SpecConvert == InitConvert /\ [][NextConvert]_vars

(***************************************************************************)
(* detect_and_print_outliers_iqr: imported by tests/test_utils.py from      *)
(* utils, where it is not defined; modelled from its contract.  A table is  *)
(* its column names, the dtype of each column and its rows; a quantity in   *)
(* quarters or eighths is kept as the integer number of quarters or eighths *)
(***************************************************************************)
MaxRows == 5

OrgNames == <<"OrgA", "OrgB", "OrgC", "OrgD", "OrgE", "OrgF", "OrgG">>
EnrolledValues == {0, 4, 8, 10000000}
NumericDtypes == {"int64", "float64"}

Table(vals) ==
    [columns |-> <<"organization", "course_students_enrolled">>,
     dtypes |-> <<"object", "int64">>,
     rows |-> [i \in 1..Len(vals) |->
                 [organization |-> OrgNames[i], course_students_enrolled |-> vals[i]]]]

Tables == { Table(vals) : vals \in UNION { [1..n -> EnrolledValues] : n \in 1..MaxRows } }

ColumnArgs == {"course_students_enrolled", "organization", "non_existent_column"}

HasColumn(t, c) == \E i \in 1..Len(t.columns) : t.columns[i] = c
Dtype(t, c) == t.dtypes[CHOOSE i \in 1..Len(t.columns) : t.columns[i] = c]
ColumnValues(t, c) == [i \in 1..Len(t.rows) |-> t.rows[i][c]]

Precondition_numericfirst(t, c) ==
    IF ~HasColumn(t, c) \/ Dtype(t, c) \notin NumericDtypes THEN "TypeError"
    ELSE "ok"
Precondition_keyonly(t, c) ==
    IF ~HasColumn(t, c) \/ Dtype(t, c) \notin NumericDtypes THEN "KeyError"
    ELSE "ok"
\* the two preconditions: the column exists, its values are numeric
Precondition(t, c) ==
    IF ~HasColumn(t, c) THEN "KeyError"
    ELSE IF Dtype(t, c) \notin NumericDtypes THEN "TypeError"
    ELSE "ok"

\* the k-th smallest of vals, 1 <= k <= Len(vals)
Kth(vals, k) ==
    CHOOSE v \in {vals[i] : i \in 1..Len(vals)} :
        /\ Cardinality({i \in 1..Len(vals) : vals[i] < v}) < k
        /\ Cardinality({i \in 1..Len(vals) : vals[i] <= v}) >= k

\* four times the (q4/4)-quantile of vals by linear interpolation between
\* ranked values: rank (n - 1) * q4 / 4 counted from 0
Quantile4(vals, q4) ==
    LET h == (Len(vals) - 1) * q4
        lo == h \div 4
        fr == h % 4
        a == Kth(vals, lo + 1)
    IN IF fr = 0 THEN 4 * a ELSE 4 * a + fr * (Kth(vals, lo + 2) - a)

\* eight times Q1 - 1.5 * IQR and eight times Q3 + 1.5 * IQR
Fences(vals) ==
    LET q1 == Quantile4(vals, 1)
        q3 == Quantile4(vals, 3)
        iqr == q3 - q1
    IN [lower8 |-> 2 * q1 - 3 * iqr, upper8 |-> 2 * q3 + 3 * iqr]

IsOutlier_inclusive(v, f) == 8 * v <= f.lower8 \/ 8 * v >= f.upper8
\* strictly below the lower bound or strictly above the upper bound
IsOutlier(v, f) == 8 * v < f.lower8 \/ 8 * v > f.upper8

\* the rows of t outside the bounds of column c, in table order
Outliers(t, c) ==
    LET f == Fences(ColumnValues(t, c))
    IN SelectSeq(t.rows, LAMBDA r : IsOutlier(r[c], f))

HeaderLine(c) == [kind |-> "header", column |-> c, row |-> <<>>]
RowLine(r) == [kind |-> "row", column |-> "", row |-> r]

HeaderLines_ifany(c, found) == IF found = <<>> THEN <<>> ELSE <<HeaderLine(c)>>
\* print(f"Potential outliers for '{column}':"), whatever was found
HeaderLines(c, found) == <<HeaderLine(c)>>

InitDetect ==
    /\ IdleLoad
    /\ IdleConvert
    /\ df \in Tables
    /\ column \in ColumnArgs
    /\ dpc = "call"
    /\ outliers = <<>>
    /\ stdout = <<>>
    /\ dout = NoOutcome

\* the preconditions, then the quartiles, the bounds and the rows outside them
DetectFind ==
    /\ dpc = "call"
    /\ LET p == Precondition(df, column)
       IN IF p = "ok"
          THEN /\ outliers' = Outliers(df, column)
               /\ dpc' = "header"
               /\ dout' = dout
          ELSE /\ dout' = [kind |-> p, key |-> IF p = "KeyError" THEN column ELSE ""]
               /\ dpc' = "raised"
               /\ outliers' = outliers
    /\ UNCHANGED <<df, column, stdout>>
    /\ UNCHANGED loadVars
    /\ UNCHANGED convVars

\* the header line
DetectPrintHeader ==
    /\ dpc = "header"
    /\ stdout' = stdout \o HeaderLines(column, outliers)
    /\ dpc' = "rows"
    /\ UNCHANGED <<df, column, outliers, dout>>
    /\ UNCHANGED loadVars
    /\ UNCHANGED convVars

\* the rows found, each in full
DetectPrintRows ==
    /\ dpc = "rows"
    /\ stdout' = stdout \o [i \in 1..Len(outliers) |-> RowLine(outliers[i])]
    /\ dpc' = "returned"
    /\ UNCHANGED <<df, column, outliers, dout>>
    /\ UNCHANGED loadVars
    /\ UNCHANGED convVars

NextDetect == DetectFind \/ DetectPrintHeader \/ DetectPrintRows

SpecDetect == InitDetect /\ [][NextDetect]_vars

(***************************************************************************)
(* Concurrent calls: two calls of load_coursera_data and one call of       *)
(* convert_students_enrolled in one process, their steps interleaved; the  *)
(* file system stays as it is                                              *)
(***************************************************************************)
\* lines 114-120 for the caught error err; hasPath: the local `path` is bound
Reraise(err, hasPath, o, dir, p) ==
    IF ~hasPath
    THEN [kind |-> "UnboundLocalError",
          msg |-> <<Lit("cannot access local variable 'path' where it is not associated with a value")>>,
          cause |-> NoError, context |-> err]
    ELSE IF Constructible(err.kind)
         THEN [kind |-> err.kind, msg |-> err.msg \o HandlerContext(o, dir, p),
               cause |-> Chain(err), context |-> err]
         ELSE [kind |-> "TypeError",
               msg |-> <<Lit("function takes exactly 5 arguments (1 given)")>>,
               cause |-> NoError, context |-> err]

\* one step of the call whose state is s, in a process with working
\* directory dir on a host with OS name o
CallStep(s, dir, o) ==
    IF s.pc = "L89"
    THEN IF s.arg.type = "str"
         THEN [s EXCEPT !.path = DropDots(s.arg.segs),
                        !.bound = @ \cup {"path"}, !.pc = "L90"]
         ELSE [s EXCEPT !.error = [kind |-> "TypeError",
                                   msg |-> <<Lit("expected str, bytes or os.PathLike object, not NoneType")>>],
                        !.pc = "L114"]
    ELSE IF s.pc = "L90"
    THEN [s EXCEPT !.current_dir = dir, !.bound = @ \cup {"current_dir"}, !.pc = "L92"]
    ELSE IF s.pc = "L92"
    THEN [s EXCEPT !.project_root = ProjectRoot(s.current_dir),
                   !.bound = @ \cup {"project_root"}, !.pc = "L97"]
    ELSE IF s.pc = "L97"
    THEN [s EXCEPT !.path = JoinRoot(s.project_root, s.path), !.pc = "L100"]
    ELSE IF s.pc = "L100"
    THEN [s EXCEPT !.path = Resolve(s.path), !.pc = "L102"]
    ELSE IF s.pc = "L102"
    THEN IF ~IsFile(s.path)
         THEN [s EXCEPT !.error = [kind |-> "FileNotFoundError",
                                   msg |-> NotFoundMessage(s.path, s.current_dir,
                                                           s.project_root, o)],
                        !.pc = "L114"]
         ELSE [s EXCEPT !.pc = "L112"]
    ELSE IF s.pc = "L112"
    THEN LET a == ReadArgs(s.path, s.enc)
             r == ReadCsv(a.path, a.encoding)
         IN IF r.ok THEN [s EXCEPT !.result = r.table, !.pc = "returned"]
            ELSE [s EXCEPT !.error = r.err, !.pc = "L114"]
    ELSE [s EXCEPT !.delivered = Reraise(s.error, "path" \in s.bound, o, dir, s.path),
                   !.pc = "raised"]

CwdAfter_chdir(dir, s) == IF "project_root" \in s.bound THEN s.project_root ELSE dir
\* the working directory of the process after a step that brought a call
\* to s: the function never calls os.chdir
CwdAfter(dir, s) == dir

\* load_coursera_data run alone, from entry to its outcome
LoadAlone(arg, enc, dir, o) ==
    IF arg.type # "str"
    THEN [pc |-> "raised", result |-> NoTable,
          delivered |-> Reraise([kind |-> "TypeError",
                                 msg |-> <<Lit("expected str, bytes or os.PathLike object, not NoneType")>>],
                                FALSE, o, dir, <<>>)]
    ELSE LET root == ProjectRoot(dir)
             p == Resolve(JoinRoot(root, DropDots(arg.segs)))
             a == ReadArgs(p, enc)
             r == ReadCsv(a.path, a.encoding)
         IN IF ~IsFile(p)
            THEN [pc |-> "raised", result |-> NoTable,
                  delivered |-> Reraise([kind |-> "FileNotFoundError",
                                         msg |-> NotFoundMessage(p, dir, root, o)],
                                        TRUE, o, dir, p)]
            ELSE IF r.ok
            THEN [pc |-> "returned", result |-> r.table, delivered |-> NoDelivery]
            ELSE [pc |-> "raised", result |-> NoTable,
                  delivered |-> Reraise(r.err, TRUE, o, dir, p)]

ConcurrentDir == <<"/", "proj", "notebooks">>

PeerArgs ==
    { [type |-> "str", segs |-> <<"data", "coursera_data.csv">>],
      [type |-> "str", segs |-> <<"data", "broken.csv">>],
      [type |-> "str", segs |-> <<"data", "latin.csv">>],
      [type |-> "str", segs |-> <<"non_existent_file.csv">>],
      [type |-> "NoneType", segs |-> <<>>] }

ConcurrentValues == { <<"1", ".", "2", "k">>, <<"a", "b", "c">> }

InitConcurrent ==
    /\ InitLoad
    /\ cwd = ConcurrentDir
    /\ \E a \in PeerArgs, e \in {"None", "utf-8"} :
           peer = [NoPeer EXCEPT !.arg = a, !.enc = e, !.pc = "L89"]
    /\ value \in ConcurrentValues
    /\ cpc = "call"
    /\ cbranch = "none"
    /\ cout = [kind |-> "None", val |-> 0]
    /\ IdleDetect

\* one step of the second call
PeerStep ==
    /\ peer.pc \notin Terminal \cup {"idle"}
    /\ peer' = CallStep(peer, cwd, os_name)
    /\ cwd' = CwdAfter(cwd, peer')
    /\ UNCHANGED <<os_name, dataset_file_path, encoding, pc, bound, path,
                   current_dir, project_root, error, built, delivered, result,
                   readerCalls, chdirs>>
    /\ UNCHANGED convVars
    /\ UNCHANGED detVars

NextConcurrent == LoadStep \/ PeerStep \/ Convert

SpecConcurrent == InitConcurrent /\ [][NextConcurrent]_vars

(***************************************************************************)
(* Claims about load_coursera_data                                         *)
(***************************************************************************)
\* the call got past line 100 with `path` bound: `path` is the resolved path
Resolved == "path" \in bound /\ pc \in {"L102", "L112", "L114", "returned", "raised"}

\* the error caught by the handler was raised by pd.read_csv
ReaderRaised == pc = "raised" /\ Len(readerCalls) = 1

\* what the handler appended after the text of the caught error
Appended == SubSeq(built, Len(error.msg) + 1, Len(built))

\* C1: when the resolved path is not an existing regular file, the caller
\* receives a FileNotFoundError whose message contains "Dataset file not
\* found", and never a table.
C1_NotFoundRaised ==
    (pc \in Terminal /\ "path" \in bound /\ path \notin RegularFiles)
        => /\ pc = "raised"
           /\ delivered.kind = "FileNotFoundError"
           /\ HasLit(delivered.msg, "Dataset file not found at: ")
           /\ result = NoTable

C1_Witness ==
    /\ pc = "raised"
    /\ "path" \in bound
    /\ path = <<"/", "proj", "non_existent_file.csv">>
    /\ delivered.kind = "FileNotFoundError"

\* C2: the error the caller receives has the same kind as the error the
\* reader raised.
C2_KindPreserved == ReaderRaised => delivered.kind = error.kind

\* C3: when the reader raises, the message the caller receives contains the
\* reader's error text and "Attempted path".
C3_ReaderTextAndAttemptedPath ==
    ReaderRaised => /\ ContainsSeq(delivered.msg, error.msg)
                    /\ HasLit(delivered.msg, "Attempted path: ")

\* C4 as stated: the context appended to a reader error carries the resolved
\* path, the working directory, the project root and the OS name.
C4_FourPieces ==
    ReaderRaised =>
        /\ HasField(Appended, "Attempted path: ", PathTok(path))
        /\ \E d \in {current_dir, cwd} : HasField(Appended, "Current directory: ", PathTok(d))
        /\ \E i \in 1..Len(Appended) : Appended[i] = PathTok(project_root)
        /\ HasField(Appended, "Operating system: ", OsTok(os_name))

\* C4 amended: the context appended to a reader error carries three pieces,
\* the resolved path, the working directory as read when the error is
\* handled and the OS name, and no project root item.
C4_ThreePieces ==
    ReaderRaised =>
        /\ HasField(Appended, "Attempted path: ", PathTok(path))
        /\ HasField(Appended, "Current directory: ", PathTok(cwd))
        /\ HasField(Appended, "Operating system: ", OsTok(os_name))
        /\ ~HasLit(Appended, "Project root: ")

C4_Witness ==
    /\ ReaderRaised
    /\ delivered.kind = "PermissionError"
    /\ project_root # cwd
    /\ current_dir # cwd

\* C5: the message of the error raised for a missing file embeds the
\* resolved path, the working directory read at the start of the call, the
\* project root computed from it and the OS name.
C5_NotFoundContext ==
    (pc = "raised" /\ "path" \in bound /\ path \notin RegularFiles) =>
        /\ HasField(delivered.msg, "Dataset file not found at: ", PathTok(path))
        /\ HasField(delivered.msg, "Current directory: ", PathTok(current_dir))
        /\ HasField(delivered.msg, "Project root: ", PathTok(project_root))
        /\ HasField(delivered.msg, "Operating system: ", OsTok(os_name))

C5_Witness ==
    /\ pc = "raised"
    /\ "path" \in bound
    /\ path \notin RegularFiles
    /\ project_root # current_dir
    /\ current_dir # cwd
    /\ HasField(delivered.msg, "Project root: ", PathTok(<<"/", "proj">>))

\* C6: the error delivered for a reader error or a missing file has the
\* error first raised inside the call as its cause.
C6_CauseIsOriginal ==
    (pc = "raised" /\ "path" \in bound) =>
        /\ error # NoError
        /\ delivered.cause = error

\* C7: the project root is the parent of the working directory iff its final
\* name is exactly "notebooks"; a relative path is joined to the root, an
\* absolute path is not; the call leaves the working directory alone.
C7_Resolution ==
    Resolved =>
        LET given == DropDots(dataset_file_path.segs)
            last == current_dir[Len(current_dir)]
            root == IF last = "notebooks"
                    THEN SubSeq(current_dir, 1, Len(current_dir) - 1)
                    ELSE current_dir
        IN /\ project_root = root
           /\ path = IF given[1] = "/" THEN Resolve(given) ELSE Resolve(root \o given)
           /\ chdirs = 0 => cwd = current_dir

C7_Witness ==
    /\ Resolved
    /\ current_dir = <<"/", "proj", "notebooks">>
    /\ dataset_file_path.segs = <<"data", "coursera_data.csv">>
    /\ path = <<"/", "proj", "data", "coursera_data.csv">>
    /\ cwd = <<"/", "proj", "Notebooks">>

\* C8: on success the reader was called exactly once, with the resolved path
\* and the caller's encoding, and its table is returned unchanged.
C8_ReaderOnceTableUnchanged ==
    pc = "returned" =>
        /\ readerCalls = << [path |-> path, encoding |-> encoding] >>
        /\ result = FileContent[path].table
        /\ Len(result.rows) = Len(FileContent[path].table.rows)
        /\ result.columns = FileContent[path].table.columns

C8_Witness ==
    /\ pc = "returned"
    /\ encoding = "latin-1"
    /\ FileContent[path].kind = "latin-1"
    /\ Len(result.rows) = 2
    /\ Len(result.columns) = 3

\* C21: whenever a call fails, at whichever step of the try block, the
\* handler completes: the caller receives an error of the original kind
\* with the "Attempted path" context, never a different error raised by the
\* handler itself.
C21_HandlerCompletes ==
    pc = "raised" =>
        /\ delivered.kind = error.kind
        /\ HasLit(delivered.msg, "Attempted path: ")

\* C22: the "Current directory" the handler appends is the working directory
\* the call read at line 90 to compute the project root and resolve the
\* path, also when another thread changes the working directory meanwhile.
C22_ContextDirIsDirRead ==
    (pc = "raised" /\ "current_dir" \in bound /\ delivered.msg = built) =>
        HasField(Appended, "Current directory: ", PathTok(current_dir))

(***************************************************************************)
(* Claims about convert_students_enrolled                                  *)
(***************************************************************************)
\* floor(v * scale) for the decimal numeral v, in exact integer arithmetic
FloorScaled(numeral, scale) ==
    LET n == DecimalDigits(numeral)
        d == Pow10(DecimalScale(numeral))
    IN (n \div d) * scale + ((n % d) * scale) \div d

\* value is an unsigned decimal numeral followed by the one character suffix
HasNumericPrefix(suffix) ==
    /\ Len(value) >= 2
    /\ value[Len(value)] = suffix
    /\ IsDecimal(SubSeq(value, 1, Len(value) - 1))

\* C9: for a numeral v followed by "k" the result is floor(v * 1000), and
\* followed by "m" it is floor(v * 1000000), v being the decimal value written.
C9_ScaledFloor ==
    /\ (cpc = "done" /\ HasNumericPrefix("k"))
          => cout = IntResult(FloorScaled(SubSeq(value, 1, Len(value) - 1), KScale))
    /\ (cpc = "done" /\ HasNumericPrefix("m"))
          => cout = IntResult(FloorScaled(SubSeq(value, 1, Len(value) - 1), MScale))

\* value is "-", a decimal numeral, and at most one suffix k or m
IsNegativeNumeral ==
    /\ Len(value) >= 2
    /\ Head(value) = "-"
    /\ LET body == Tail(value)
           core == IF body[Len(body)] \in {"k", "m"}
                   THEN SubSeq(body, 1, Len(body) - 1) ELSE body
       IN IsDecimal(core)

\* C10: a negative numeral, with or without a k/m suffix, is rejected with a
\* ValueError.
C10_NegativeRejected ==
    (cpc = "done" /\ IsNegativeNumeral) => cout.kind = "ValueError"

\* s is accepted by float(): whitespace, a sign, then a decimal numeral with
\* or without exponent, inf or nan
IsFloatLiteral(s) ==
    LET u == Unsigned(Strip(s))
    IN IsDecimal(u) \/ IsScientific(u) \/ u = <<"i", "n", "f">> \/ u = <<"n", "a", "n">>
\* s is accepted by int(): whitespace, a sign, then one or more digits
IsIntLiteral(s) ==
    LET u == Unsigned(Strip(s)) IN u # <<>> /\ AllDigits(u)

\* what is left of value after the suffix is stripped is no number
NotANumber ==
    IF Contains(value, "k") THEN ~IsFloatLiteral(Remove(value, "k"))
    ELSE IF Contains(value, "m") THEN ~IsFloatLiteral(Remove(value, "m"))
    ELSE ~IsIntLiteral(value)

\* C11: a string that is not a valid number after suffix stripping ("abc",
\* "1.2b", " ", "", a lone "k" or "m") raises a ValueError.
C11_InvalidRaisesValueError ==
    (cpc = "done" /\ NotANumber) => cout = Raise("ValueError")

C11_Witness ==
    /\ cpc = "done"
    /\ value = <<"k">>
    /\ NotANumber
    /\ cout.kind = "ValueError"

\* C12: without "k" and "m" the whole string is parsed as an integer: a digit
\* string d gives d, a numeral with a fractional part is rejected with a
\* ValueError, not truncated.
C12_PlainIntegerOnly ==
    (cpc = "done" /\ ~Contains(value, "k") /\ ~Contains(value, "m")) =>
        /\ (value # <<>> /\ AllDigits(value)) => cout = IntResult(DigitsToInt(value))
        /\ (IsDecimal(value) /\ DotCount(value) = 1) => cout = Raise("ValueError")

C12_Witness ==
    /\ cpc = "done"
    /\ value = <<"1", ".", "5">>
    /\ cout.kind = "ValueError"

\* C19: the suffix test is case-sensitive and tries "k" before "m": a string
\* with a "k" anywhere takes the thousands branch even when it also has an
\* "m"; the millions branch needs an "m" and no "k"; "K" and "M" select
\* neither.
C19_BranchOrder ==
    cpc = "done" =>
        LET hasK == \E i \in 1..Len(value) : value[i] = "k"
            hasM == \E i \in 1..Len(value) : value[i] = "m"
        IN /\ hasK => (cbranch = "k" /\ cout = Scaled(value, "k", KScale))
           /\ (hasM /\ ~hasK) => (cbranch = "m" /\ cout = Scaled(value, "m", MScale))
           /\ (~hasK /\ ~hasM) => (cbranch = "plain" /\ cout = ParseInt(value))

C19_Witness ==
    /\ cpc = "done"
    /\ value = <<"1", "m", "k">>
    /\ cbranch = "k"

C19_WitnessUpper ==
    /\ cpc = "done"
    /\ value = <<"1", "K">>
    /\ cbranch = "plain"
    /\ cout.kind = "ValueError"

\* a < b for limb sequences without zero limbs at the top
LimbsLess(a, b) ==
    \/ Len(a) < Len(b)
    \/ /\ Len(a) = Len(b)
       /\ \E i \in 1..Len(a) :
              /\ a[i] < b[i]
              /\ \A j \in (i + 1)..Len(a) : a[j] = b[j]

Abs(n) == IF n < 0 THEN 0 - n ELSE n

\* |r| <= |x| < |r| + 1 for the float x = sig * 2^exp
WithinOneBelow(r, x) ==
    IF x.cls = "zero" THEN r = 0
    ELSE IF x.exp >= 0 THEN Limbs(Abs(r)) = ShiftLeft(x.sig, x.exp)
    ELSE /\ ~LimbsLess(x.sig, ShiftLeft(Limbs(Abs(r)), 0 - x.exp))
         /\ LimbsLess(x.sig, ShiftLeft(Limbs(Abs(r) + 1), 0 - x.exp))

\* the float product of the k or m branch, when the remainder is a finite number
ScaledFloat ==
    LET suffix == IF Contains(value, "k") THEN "k" ELSE "m"
        p == ParseFloat(Remove(value, suffix))
    IN [ok |-> (Contains(value, "k") \/ Contains(value, "m"))
               /\ p.ok /\ p.x.cls \in {"zero", "finite"},
        x |-> Times(p.x, IF suffix = "k" THEN KScale ELSE MScale)]

\* C20: in the k and m branches the scaled value x becomes an integer r by
\* truncation toward zero: |r| <= |x| < |r| + 1, and r has the sign of x or
\* is 0.
C20_TruncatesTowardZero ==
    (cpc = "done" /\ ScaledFloat.ok) =>
        /\ cout.kind = "int"
        /\ WithinOneBelow(cout.val, ScaledFloat.x)
        /\ ScaledFloat.x.neg => cout.val <= 0
        /\ ~ScaledFloat.x.neg => cout.val >= 0

C20_Witness ==
    /\ cpc = "done"
    /\ value = <<"-", "4", ".", "1", "m">>
    /\ ScaledFloat.ok
    /\ ~ShiftRight(ScaledFloat.x.sig, 0 - ScaledFloat.x.exp).exact
    /\ cout = IntResult(0 - 4099999)

\* p is in canonical form: absolute, without "." and ".." components
Canonical(p) ==
    /\ Len(p) > 0
    /\ p[1] = "/"
    /\ \A i \in 1..Len(p) : p[i] \notin {".", ".."}

\* C18: a call resolves, then checks existence, then reads: the check is made
\* on the canonical path, the reader is never called unless the check passed
\* (never for a missing file), and it is called at most once, without retry.
C18_ResolveCheckRead ==
    /\ Len(readerCalls) <= 1
    /\ pc \in {"L89", "L90", "L92", "L97", "L100", "L102"} => readerCalls = <<>>
    /\ pc \in {"L102", "L112"} => Canonical(path)
    /\ readerCalls # <<>> =>
           /\ Canonical(path)
           /\ path \in RegularFiles
           /\ readerCalls[1].path = path
    /\ (Resolved /\ path \notin RegularFiles) => readerCalls = <<>>

C18_Witness ==
    /\ pc = "raised"
    /\ dataset_file_path.segs = <<"/", "proj", "notebooks", "..", "data", "latin.csv">>
    /\ Len(readerCalls) = 1
    /\ readerCalls[1].path = <<"/", "proj", "data", "latin.csv">>

\* C23: for every string the call returns an integer or raises a ValueError;
\* no other kind of error escapes, also when the remainder is a token float()
\* accepts that has no integer value (infinity, not-a-number, an
\* overflowing exponent).
C23_IntOrValueError ==
    cpc = "done" => cout.kind \in {"int", "ValueError"}

(***************************************************************************)
(* Claims about detect_and_print_outliers_iqr                              *)
(***************************************************************************)
\* the rows written to standard output, in order
PrintedRows ==
    LET lines == SelectSeq(stdout, LAMBDA l : l.kind = "row")
    IN [i \in 1..Len(lines) |-> lines[i].row]

NumericCall == HasColumn(df, column) /\ Dtype(df, column) \in NumericDtypes

\* C13: a row is reported exactly when its value is strictly below
\* Q1 - 1.5*IQR or strictly above Q3 + 1.5*IQR, Q1 and Q3 being the 25th and
\* 75th percentiles by linear interpolation; a value equal to a bound is not
\* reported; a reported row is printed in full.
C13_StrictlyOutsideReported ==
    (dpc = "returned" /\ NumericCall) =>
        LET vals == ColumnValues(df, column)
            q1x4 == Quantile4(vals, 1)
            q3x4 == Quantile4(vals, 3)
            iqrx4 == q3x4 - q1x4
        IN PrintedRows =
               SelectSeq(df.rows,
                         LAMBDA r : \/ 8 * r[column] < 2 * q1x4 - 3 * iqrx4
                                    \/ 8 * r[column] > 2 * q3x4 + 3 * iqrx4)

C13_Witness ==
    /\ dpc = "returned"
    /\ NumericCall
    /\ \E i \in 1..Len(df.rows) :
           /\ df.rows[i][column] = 10000000
           /\ PrintedRows = <<df.rows[i]>>
    /\ \E i \in 1..Len(df.rows) :
           /\ 8 * df.rows[i][column] = Fences(ColumnValues(df, column)).upper8
           /\ \A j \in 1..Len(PrintedRows) : PrintedRows[j] # df.rows[i]

\* C14: a column name that is not in the table raises a KeyError naming the
\* column, and no row is reported.
C14_MissingColumnKeyError ==
    (dpc \notin {"idle", "call"} /\ ~HasColumn(df, column)) =>
        /\ dpc = "raised"
        /\ dout = [kind |-> "KeyError", key |-> column]
        /\ PrintedRows = <<>>

C14_Witness ==
    /\ dpc = "raised"
    /\ column = "non_existent_column"
    /\ dout.kind = "KeyError"
    /\ dout.key = "non_existent_column"

\* C15: an existing column whose values are not numeric (the text column
\* "organization") raises a TypeError.
C15_NonNumericTypeError ==
    (dpc \notin {"idle", "call"} /\ HasColumn(df, column)
         /\ Dtype(df, column) \notin NumericDtypes) =>
        /\ dpc = "raised"
        /\ dout.kind = "TypeError"

C15_Witness ==
    /\ dpc = "raised"
    /\ column = "organization"
    /\ dout.kind = "TypeError"

\* C16: a call on an existing numeric column writes the header exactly once
\* and before any row, whatever the number of outliers, zero included.
C16_HeaderOnceFirst ==
    NumericCall =>
        /\ Cardinality({i \in 1..Len(stdout) : stdout[i].kind = "header"}) <= 1
        /\ \A i \in 1..Len(stdout) :
               stdout[i].kind = "row" => (i > 1 /\ stdout[1] = HeaderLine(column))
        /\ dpc \in {"rows", "returned"} =>
               /\ Len(stdout) >= 1
               /\ stdout[1] = HeaderLine(column)
               /\ \A i \in 2..Len(stdout) : stdout[i].kind = "row"

C16_Witness ==
    /\ dpc = "returned"
    /\ NumericCall
    /\ stdout = <<HeaderLine(column)>>

(***************************************************************************)
(* Claims about concurrent calls                                           *)
(***************************************************************************)
\* C17: the calls share no mutable state: however the steps of the
\* concurrent calls interleave, each call that has finished has the outcome
\* (table or error, message included) it has when run alone.
C17_OutcomeAsAlone ==
    /\ pc \in Terminal =>
           [pc |-> pc, result |-> result, delivered |-> delivered]
               = LoadAlone(dataset_file_path, encoding, ConcurrentDir, os_name)
    /\ peer.pc \in Terminal =>
           [pc |-> peer.pc, result |-> peer.result, delivered |-> peer.delivered]
               = LoadAlone(peer.arg, peer.enc, ConcurrentDir, os_name)
    /\ cpc = "done" => cout = ConvertStudentsEnrolled(value)

\* both loads have raised, for different arguments, and the conversion is done
C17_Witness ==
    /\ pc = "raised"
    /\ peer.pc = "raised"
    /\ cpc = "done"
    /\ HasLit(delivered.msg, "Current directory: ")
    /\ HasLit(peer.delivered.msg, "Current directory: ")
    /\ dataset_file_path # peer.arg

====
